---- MODULE Spec2Model ----
(***************************************************************************)
(* SmartSim Job Manager (smartsim/control/jobmanager.py, job.py): the      *)
(* registry of launched jobs, its background polling loop and the          *)
(* Controller's calls into it.                                             *)
(*                                                                         *)
(* Python objects are kept in a heap (objs): a Job is referred to by its   *)
(* index, so that two references to one Job are the same Job.  A dict is   *)
(* a sequence of <<key, value>> pairs in insertion order.  Python's None   *)
(* is the string "None"; return codes and job ids are strings.             *)
(***************************************************************************)
EXTENDS Integers, Sequences, FiniteSets, TLC

\* ------------------------------------------------------------------ bounds
\* Number of Job objects add_job may create.
MaxAdds == 2
\* Number of threads of start() that exist at once.
MaxThreads == 1
\* Number of threads of start() that exist at once, where only start() is
\* called.
MaxStarts == 2
\* Number of Job objects, and of reset calls on one Job, where the methods of
\* Job are called one by one.
MaxJobs == 1
MaxResets == 1

\* ------------------------------------------------------------------ inputs
None == "None"

\* The entities the Controller launches: a name and whether the entity is a
\* DBNode/Orchestrator.  Two entities of different kind share the name "a".
Entities ==
    { [name |-> "a", db |-> FALSE],
      [name |-> "a", db |-> TRUE],
      [name |-> "b", db |-> FALSE] }

EntityNames == { e.name : e \in Entities }

\* The steps the launcher created: job_name and the job_id the launcher gave
\* it.  The step name "a" is also an entity name, "s" is not.
Steps == { [name |-> "a", id |-> "j1"], [name |-> "s", id |-> "j2"] }

\* What the launcher adapter may report for one step.
StatusReports ==
    { [status |-> "RUNNING", launcher_status |-> "R", returncode |-> None,
       error |-> None, output |-> None],
      [status |-> "COMPLETED", launcher_status |-> "CD", returncode |-> "0",
       error |-> None, output |-> "out"],
      [status |-> "FAILED", launcher_status |-> "F", returncode |-> "1",
       error |-> "err", output |-> "out"],
      [status |-> "CANCELLED", launcher_status |-> "CA", returncode |-> "15",
       error |-> None, output |-> "out"] }

TERMINAL_STATUSES == {"COMPLETED", "FAILED", "CANCELLED"}

\* The database entities with their ports, the orchestrators with their hosts
\* and the steps of a launch of two databases.
DbEntities ==
    { [name |-> "a", db |-> TRUE, ports |-> <<6379, 6380>>],
      [name |-> "c", db |-> TRUE, ports |-> <<6379>>] }

DbOrchestrators ==
    { [name |-> "a", batch |-> TRUE, hosts |-> <<"h1", "h2">>, nodes |-> <<>>],
      [name |-> "c", batch |-> TRUE, hosts |-> <<"h3">>, nodes |-> <<>>],
      [name |-> "o", batch |-> FALSE, hosts |-> <<>>,
       nodes |-> <<[name |-> "a", host |-> "h1"],
                   [name |-> "c", host |-> "h3"]>>] }

\* get_ip_from_host: the address of a host.
get_ip_from_host(host) ==
    CASE host = "h1" -> "10.0.0.1"
      [] host = "h2" -> "10.0.0.2"
      [] host = "h3" -> "10.0.0.3"

\* str(port)
StrOfPort(port) ==
    CASE port = 6379 -> "6379"
      [] port = 6380 -> "6380"

\* The orchestrators set_db_hosts is given: one launched as a batch, with its
\* hosts, and one that is iterated over its database nodes.
Orchestrators ==
    { [name |-> "a", batch |-> TRUE, hosts |-> <<"h1">>, nodes |-> <<>>],
      [name |-> "o", batch |-> FALSE, hosts |-> <<>>,
       nodes |-> <<[name |-> "a", host |-> "h1"],
                   [name |-> "b", host |-> "h2"]>>] }

\* ------------------------------------------------------------ Python dicts
EmptyMap == [x \in {} |-> None]

Range(s) == { s[i] : i \in 1..Len(s) }

Min(a, b) == IF a <= b THEN a ELSE b

\* The keys of a dict, in insertion order, and as a set.
KeySeq(d) == [i \in 1..Len(d) |-> d[i][1]]

Keys(d) == { d[i][1] : i \in 1..Len(d) }

\* The values of a dict, in insertion order.
Values(d) == [i \in 1..Len(d) |-> d[i][2]]

\* d[k], for k a key of d.
Get(d, k) == d[CHOOSE i \in 1..Len(d) : d[i][1] = k][2]

\* d[k] = v: an existing key keeps its place, a new key goes last.
Put(d, k, v) ==
    IF k \in Keys(d)
    THEN [i \in 1..Len(d) |-> IF d[i][1] = k THEN <<k, v>> ELSE d[i]]
    ELSE Append(d, <<k, v>>)

\* del d[k], for k a key of d.
Del(d, k) == SelectSeq(d, LAMBDA p : p[1] # k)

\* {**d1, **d2}
RECURSIVE Merge(_, _)
Merge(d1, d2) ==
    IF d2 = <<>> THEN d1
    ELSE Merge(Put(d1, Head(d2)[1], Head(d2)[2]), Tail(d2))

\* ------------------------------------------------------- Python sequences
\* The lists of a list of lists, one after the other.
RECURSIVE Concat(_)
Concat(ss) == IF ss = <<>> THEN <<>> ELSE Head(ss) \o Concat(Tail(ss))

\* itertools.product(*lists): the tuples in the order itertools gives them,
\* the last list varying fastest; one empty tuple for no list at all.
RECURSIVE Product(_)
Product(lists) ==
    IF lists = <<>> THEN << <<>> >>
    ELSE LET rest == Product(Tail(lists))
         IN  Concat([i \in 1..Len(Head(lists)) |->
                        [j \in 1..Len(rest) |-> <<Head(lists)[i]>> \o rest[j]]])

\* s[:n]: the first n elements; for a negative n all but the last -n.
Slice(s, n) ==
    IF n >= 0 THEN SubSeq(s, 1, Min(n, Len(s)))
    ELSE SubSeq(s, 1, IF Len(s) + n > 0 THEN Len(s) + n ELSE 0)

\* list(itertools.islice(s, n)): a negative stop is a ValueError.
ISlice(s, n) ==
    IF n < 0 THEN [exc |-> "ValueError", result |-> <<>>]
    ELSE [exc |-> "none", result |-> SubSeq(s, 1, Min(n, Len(s)))]

\* The length of the shortest of a list of lists.
RECURSIVE MinLen(_)
MinLen(lists) ==
    IF Len(lists) = 1 THEN Len(Head(lists))
    ELSE Min(Len(Head(lists)), MinLen(Tail(lists)))

\* zip(*lists): the tuples of the i-th elements, up to the shortest list;
\* nothing for no list at all.
ZipAll(lists) ==
    IF lists = <<>> THEN <<>>
    ELSE [i \in 1..MinLen(lists) |-> [j \in 1..Len(lists) |-> lists[j][i]]]

\* itertools.zip_longest(a, b, fillvalue=fill)
ZipLongest(a, b, fill) ==
    [i \in 1..(IF Len(a) >= Len(b) THEN Len(a) ELSE Len(b)) |->
        <<IF i <= Len(a) THEN a[i] ELSE fill,
          IF i <= Len(b) THEN b[i] ELSE fill>>]

\* dict(zip(keys, values)), for keys that differ.
DictZip(keys, values) ==
    [i \in 1..Min(Len(keys), Len(values)) |-> <<keys[i], values[i]>>]

\* A Python value that is a dict, with its items, or an int.
PyDict(items) == [kind |-> "dict", int |-> 0, items |-> items]

PyInt(i) == [kind |-> "int", int |-> i, items |-> <<>>]

\* sep.join(parts), as the sequence of the pieces of the string.
Join(sep, parts) ==
    [i \in 1..(IF parts = <<>> THEN 0 ELSE 2 * Len(parts) - 1) |->
        IF i % 2 = 1 THEN parts[(i + 1) \div 2] ELSE sep]

\* ------------------------------------------------------------ Python calls
\* Binding the arguments of a call to the parameters of a function (self
\* left out).  params: the parameter names in order; defaults: parameter ->
\* default value, for the parameters that have one; pos: the positional
\* arguments; kw: keyword -> value.  A call that cannot be bound raises
\* TypeError before the function's body runs.
BindArgs(params, defaults, pos, kw) ==
    LET names == Range(params)
        bad ==
            \/ Len(pos) > Len(params)
            \/ \E k \in DOMAIN kw : k \notin names
            \/ \E i \in 1..Min(Len(pos), Len(params)) : params[i] \in DOMAIN kw
            \/ \E i \in (Len(pos) + 1)..Len(params) :
                   params[i] \notin DOMAIN kw /\ params[i] \notin DOMAIN defaults
    IN  IF bad THEN [ok |-> FALSE, args |-> EmptyMap]
        ELSE [ok |-> TRUE,
              args |-> [p \in names |->
                          LET i == CHOOSE j \in 1..Len(params) : params[j] = p
                          IN  IF i <= Len(pos) THEN pos[i]
                              ELSE IF p \in DOMAIN kw THEN kw[p]
                              ELSE defaults[p]]]

\* obj.attr: AttributeError when the object has no such attribute.
HasAttr(obj, attr) == attr \in DOMAIN obj

\* obj.attr = v, also for an attribute the object does not have yet.
SetAttr(obj, attr, v) ==
    [x \in DOMAIN obj \cup {attr} |-> IF x = attr THEN v ELSE obj[x]]

\* ----------------------------------------------------------------- History
\* History.__init__
NewHistory ==
    [runs |-> 0, jids |-> EmptyMap, statuses |-> EmptyMap, returns |-> EmptyMap,
     errors |-> EmptyMap, outputs |-> EmptyMap]

\* d[k] = v on a dict keyed by run index.
MapPut(m, k, v) == [x \in DOMAIN m \cup {k} |-> IF x = k THEN v ELSE m[x]]

\* History.record that always writes the first run's entry.
HistoryRecordAtZero(h, job_id, status, returncode, error, output) ==
    [h EXCEPT !.jids = MapPut(h.jids, 0, job_id),
              !.statuses = MapPut(h.statuses, 0, status),
              !.returns = MapPut(h.returns, 0, returncode),
              !.errors = MapPut(h.errors, 0, error),
              !.outputs = MapPut(h.outputs, 0, output)]

\* History.record
HistoryRecord(h, job_id, status, returncode, error, output) ==
    [h EXCEPT !.jids = MapPut(h.jids, h.runs, job_id),
              !.statuses = MapPut(h.statuses, h.runs, status),
              !.returns = MapPut(h.returns, h.runs, returncode),
              !.errors = MapPut(h.errors, h.runs, error),
              !.outputs = MapPut(h.outputs, h.runs, output)]

\* History.new_run
HistoryNewRun(h) == [h EXCEPT !.runs = h.runs + 1]

\* --------------------------------------------------------------------- Job
\* Job.__init__ with job_name and job_id stored one for the other.
NewJobSwapped(job_name, job_id, entity) ==
    [name |-> job_id, jid |-> job_name, entity |-> entity, status |-> "NEW",
     returncode |-> None, output |-> None, error |-> None, nodes |-> None,
     history |-> NewHistory]

\* Job.__init__: the attributes a Job has.
NewJob(job_name, job_id, entity) ==
    [name |-> job_name, jid |-> job_id, entity |-> entity, status |-> "NEW",
     returncode |-> None, output |-> None, error |-> None, nodes |-> None,
     history |-> NewHistory]

\* Job.set_status: its parameters and its body.
SetStatusParams == <<"new_status", "returncode", "error", "output">>

SetStatusDefaults == [p \in {"error", "output"} |-> None]

SetStatusBody(job, a) ==
    [job EXCEPT !.status = a["new_status"], !.returncode = a["returncode"],
                !.error = a["error"], !.output = a["output"]]

\* Job.record_history
RecordHistory(job) ==
    [job EXCEPT !.history =
        HistoryRecord(job.history, job.jid, job.status, job.returncode,
                      job.error, job.output)]

\* Job.reset: its parameters and its body.
ResetParams == <<"new_job_id">>

ResetBody(job, a) ==
    [job EXCEPT !.jid = a["new_job_id"], !.status = "NEW", !.returncode = None,
                !.output = None, !.error = None, !.nodes = None,
                !.history = HistoryNewRun(job.history)]

\* -------------------------------------------------- permutation strategies
\* ParamSet(file_params, exe_args)
ParamSet(file_params, exe_args) ==
    [params |-> file_params, exe_args |-> exe_args]

\* The result of a function that raised.
Raised(exc) == [exc |-> exc, result |-> <<>>]

\* _register(name)(fn)
Register(reg, name, fn) ==
    IF name \in Keys(reg) THEN [exc |-> "ValueError", reg |-> reg]
    ELSE [exc |-> "none", reg |-> Put(reg, name, fn)]

\* _REGISTERED_STRATEGIES once the module is imported: the three decorated
\* functions, in the order of their definitions.
ImportedStrategies ==
    Register(Register(Register(<<>>, "all_perm", "create_all_permutations").reg,
                      "step", "step_values").reg,
             "random", "random_permutations").reg

\* dict(zip(d, t)) for every tuple t of a list, d a dict: the list of dicts.
Dicts(d, tuples) ==
    [i \in 1..Len(tuples) |-> PyDict(DictZip(KeySeq(d), tuples[i]))]

\* ParamSet(file_params, exe_args) for every pair of a list.
ParamSets(pairs) ==
    [i \in 1..Len(pairs) |-> ParamSet(pairs[i][1], pairs[i][2])]

\* create_all_permutations: its parameters and its body.
AllPermParams == <<"params", "exe_args", "_n_permutations">>

StrategyDefaults == [p \in {"_n_permutations"} |-> 0]

CreateAllPermutations(a) ==
    LET n == a["_n_permutations"]
        params_permutations == Product(Values(a["params"]))
        param_zip == Slice(Dicts(a["params"], params_permutations), n)
        exe_arg_permutations == Product(Values(a["exe_args"]))
        exe_arg_zip == Slice(Dicts(a["exe_args"], exe_arg_permutations), n)
        combinations == Product(<<param_zip, exe_arg_zip>>)
        matts_bad_idea == ParamSets(combinations)
    IN  ISlice(matts_bad_idea, n)

\* step_values: the same parameters; its body.
StepValues(a) ==
    LET n == a["_n_permutations"]
        param_zip == Slice(Dicts(a["params"], ZipAll(Values(a["params"]))), n)
        exe_arg_zip ==
            Slice(Dicts(a["exe_args"], ZipAll(Values(a["exe_args"]))), n)
        matts_bad_idea ==
            ParamSets(ZipLongest(param_zip, exe_arg_zip, PyInt(-1)))
    IN  ISlice(matts_bad_idea, n)

\* random_permutations: its parameters, and the names its body can read
\* besides them: the names the module defines or imports.
RandomParams == <<"params", "n_permutations">>

RandomDefaults == [p \in {"n_permutations"} |-> 0]

ModuleNames ==
    {"ParamSet", "functools", "itertools", "random", "t", "errors",
     "TPermutationStrategy", "_REGISTERED_STRATEGIES", "_register", "resolve",
     "_make_safe_custom_strategy", "create_all_permutations", "step_values",
     "random_permutations"}

\* A name the body of a function with the arguments a reads is bound.
NameBound(name, a) == name \in DOMAIN a \/ name \in ModuleNames

\* random_permutations: its body.  The slices read _n_permutations and the
\* products read exe_args, which are NameErrors unless bound; then
\* len(combinations) is the len of an itertools.product, a TypeError, and the
\* return reads permutations, which nothing has assigned.
RandomPermutations(a) ==
    IF ~NameBound("_n_permutations", a) THEN Raised("NameError")
    ELSE IF ~NameBound("exe_args", a) THEN Raised("NameError")
    ELSE IF 0 < a["n_permutations"] THEN Raised("TypeError")
    ELSE Raised("UnboundLocalError")

\* What resolve is given: the name of a strategy, or a callable of the user
\* with its number of parameters and what a call of it does.
StrategyName(name) ==
    [callable |-> FALSE, name |-> name, nparams |-> 0, does |-> "none"]

UserBehaviours ==
    {"dicts", "no_dicts", "paramsets", "tuple", "ints", "raises", "interrupt"}

UserStrategies ==
    [callable : {TRUE}, name : {"f"}, nparams : {2, 3}, does : UserBehaviours]

Strategies ==
    {StrategyName(name) : name \in {"all_perm", "step", "random", "bogus"}}
        \cup UserStrategies

\* The exceptions that are instances of Exception; KeyboardInterrupt is a
\* BaseException only.
IsException(exc) ==
    exc \in {"TypeError", "ValueError", "KeyError", "NameError",
             "RuntimeError", "UnboundLocalError", "AttributeError",
             "UserStrategyError"}

PyParamSet == [kind |-> "ParamSet", int |-> 0, items |-> <<>>]

\* A call fn(*pos) of a callable of the user: what it raises, or what it
\* returns and whether that is a list.
CallUser(fn, pos) ==
    IF Len(pos) # fn.nparams
    THEN [exc |-> "TypeError", islist |-> FALSE, value |-> <<>>]
    ELSE CASE fn.does = "dicts" ->
                [exc |-> "none", islist |-> TRUE,
                 value |-> <<PyDict(<< <<"X", "1">> >>),
                             PyDict(<< <<"X", "2">> >>)>>]
           [] fn.does = "no_dicts" ->
                [exc |-> "none", islist |-> TRUE, value |-> <<>>]
           [] fn.does = "paramsets" ->
                [exc |-> "none", islist |-> TRUE, value |-> <<PyParamSet>>]
           [] fn.does = "tuple" ->
                [exc |-> "none", islist |-> FALSE,
                 value |-> <<PyDict(<< <<"X", "1">> >>)>>]
           [] fn.does = "ints" ->
                [exc |-> "none", islist |-> TRUE,
                 value |-> <<PyDict(<< <<"X", "1">> >>), PyInt(7)>>]
           [] fn.does = "raises" ->
                [exc |-> "RuntimeError", islist |-> FALSE, value |-> <<>>]
           [] fn.does = "interrupt" ->
                [exc |-> "KeyboardInterrupt", islist |-> FALSE, value |-> <<>>]

\* _impl of _make_safe_custom_strategy(fn): its parameters and its body.
SafeCustomParams == <<"params", "n_permutations">>

\* _impl that returns whatever fn returns.
SafeCustomStrategyUnchecked(fn, a) ==
    LET fargs == <<a["params"], a["n_permutations"]>>
        permutations == CallUser(fn, fargs)
    IN  IF permutations.exc # "none"
        THEN [exc |-> IF IsException(permutations.exc)
                      THEN "UserStrategyError" ELSE permutations.exc,
              ident |-> IF IsException(permutations.exc)
                        THEN fn.name ELSE "",
              result |-> <<>>, fcalls |-> <<fargs>>]
        ELSE [exc |-> "none", ident |-> "", result |-> permutations.value,
              fcalls |-> <<fargs>>]

\* ident: the str(fn) a UserStrategyError carries; fcalls: the argument
\* tuples fn was called with.
SafeCustomStrategy(fn, a) ==
    LET fargs == <<a["params"], a["n_permutations"]>>
        permutations == CallUser(fn, fargs)
    IN  IF permutations.exc # "none"
        THEN [exc |-> IF IsException(permutations.exc)
                      THEN "UserStrategyError" ELSE permutations.exc,
              ident |-> IF IsException(permutations.exc)
                        THEN fn.name ELSE "",
              result |-> <<>>, fcalls |-> <<fargs>>]
        ELSE IF \/ ~permutations.islist
                \/ \E i \in DOMAIN permutations.value :
                       permutations.value[i].kind # "dict"
        THEN [exc |-> "UserStrategyError", ident |-> fn.name,
              result |-> <<>>, fcalls |-> <<fargs>>]
        ELSE [exc |-> "none", ident |-> "", result |-> permutations.value,
              fcalls |-> <<fargs>>]

\* A function object: the def it comes from and, for _impl, the fn it closes
\* over.
Function(def, wraps) == [def |-> def, wraps |-> wraps]

NoFunction == Function("none", StrategyName("none"))

\* resolve that takes the first registered strategy for whatever name.
ResolveFirst(reg, strategy) ==
    [exc |-> "none", msg |-> <<>>,
     fn |-> Function(reg[1][2], StrategyName("none"))]

\* resolve(strategy), with reg for _REGISTERED_STRATEGIES.
Resolve(reg, strategy) ==
    IF strategy.callable
    THEN [exc |-> "none", msg |-> <<>>, fn |-> Function("_impl", strategy)]
    ELSE IF strategy.name \in Keys(reg)
    THEN [exc |-> "none", msg |-> <<>>,
          fn |-> Function(Get(reg, strategy.name), StrategyName("none"))]
    ELSE [exc |-> "ValueError", fn |-> NoFunction,
          msg |-> <<"Failed to find an ensembling strategy by the name of '",
                    strategy.name, "'.", "All known strategies are:\n">>
                      \o Join(", ", KeySeq(reg))]

\* The call fn(*pos) of a function object.
Call(fn, pos) ==
    LET params == CASE fn.def = "random_permutations" -> RandomParams
                    [] fn.def = "_impl" -> SafeCustomParams
                    [] OTHER -> AllPermParams
        defaults == CASE fn.def = "random_permutations" -> RandomDefaults
                      [] fn.def = "_impl" -> EmptyMap
                      [] OTHER -> StrategyDefaults
        b == BindArgs(params, defaults, pos, EmptyMap)
        body == CASE fn.def = "create_all_permutations" ->
                        CreateAllPermutations(b.args)
                  [] fn.def = "step_values" -> StepValues(b.args)
                  [] fn.def = "random_permutations" ->
                        RandomPermutations(b.args)
    IN  IF ~b.ok
        THEN [exc |-> "TypeError", ident |-> "", result |-> <<>>,
              fcalls |-> <<>>]
        ELSE IF fn.def = "_impl" THEN SafeCustomStrategy(fn.wraps, b.args)
        ELSE [exc |-> body.exc, ident |-> "", result |-> body.result,
              fcalls |-> <<>>]

\* ------------------------------------------------------------------- state
VARIABLES
    objs,                 \* the Job objects created so far, by index
    jobs,                 \* JobManager.jobs: entity name -> Job
    db_jobs,              \* JobManager.db_jobs: entity name -> Job
    completed,            \* JobManager.completed: entity name -> Job
    actively_monitoring,  \* JobManager.actively_monitoring
    lock,                 \* JobManager._lock: 0 when free, else the holding thread
    th,                   \* the threads start() created: position and locals
    ctl,                  \* the Controller's call: the last one and how it
                          \* ended, or the one in progress and its position
    addedAfterStart,      \* add_job was called after a start()
    reentrant,            \* the lock given to __init__ is an RLock
    REGISTERED_STRATEGIES, \* strategies._REGISTERED_STRATEGIES
    gen                   \* the last call of resolve or of a strategy

strategyVars == <<REGISTERED_STRATEGIES, gen>>

\* No call of the strategies module yet.  calls counts the calls made.
NoGen ==
    [calls |-> 0, op |-> "none", strategy |-> StrategyName("none"), params |-> <<>>,
     exe_args |-> <<>>, nargs |-> 0, n |-> 0, exc |-> "none", msg |-> <<>>,
     ident |-> "", fn |-> NoFunction, result |-> <<>>, fcalls |-> <<>>]

vars ==
    <<objs, jobs, db_jobs, completed, actively_monitoring, lock, th, ctl,
      addedAfterStart, reentrant, strategyVars>>

\* The Controller's thread, as a holder of the lock.
Controller == MaxThreads + MaxStarts + 1

\* The threads start() may create.
Threads == DOMAIN th

\* No thread: start() has not created it, or it has ended and a later start()
\* may take its place.
\* requests: the get_step_update requests of the thread's last check_jobs
\* call, each the list of names it carried.
NoThread ==
    [pc |-> "idle", jobs |-> <<>>, statuses |-> <<>>, items |-> <<>>,
     exc |-> "none", requests |-> <<>>]

\* pc: "ret" when the call has returned or raised; held: how many times the
\* Controller has acquired the lock and not yet released it; result: what the
\* call returned.
NoCall ==
    [op |-> "none", job_name |-> None, job_id |-> None, ename |-> None,
     job |-> 0, moved |-> FALSE, runs |-> 0, exc |-> "none", pc |-> "ret",
     held |-> 0, result |-> None, addresses |-> <<>>]

\* JobManager.__init__
Init ==
    /\ objs = <<>>
    /\ jobs = <<>>
    /\ db_jobs = <<>>
    /\ completed = <<>>
    /\ actively_monitoring = FALSE
    /\ lock = 0
    /\ th = [t \in 1..MaxThreads |-> NoThread]
    /\ ctl = NoCall
    /\ addedAfterStart = FALSE
    /\ reentrant \in BOOLEAN
    /\ REGISTERED_STRATEGIES = ImportedStrategies
    /\ gen = NoGen

\* ------------------------------------------------- Job Manager: operations
\* JobManager.__call__: {**self.jobs, **self.db_jobs}
AllJobs == Merge(jobs, db_jobs)

\* The entity names tracked by the manager.
Tracked == Keys(jobs) \cup Keys(db_jobs)

\* isinstance(entity, (DBNode, Orchestrator))
IsDb(entity) == entity.db

\* __getitem__ that looks into jobs before db_jobs.
GetItemJobsFirst(entity_name) ==
    IF entity_name \in Keys(jobs)
    THEN [exc |-> "none", job |-> Get(jobs, entity_name)]
    ELSE IF entity_name \in Keys(db_jobs)
    THEN [exc |-> "none", job |-> Get(db_jobs, entity_name)]
    ELSE IF entity_name \in Keys(completed)
    THEN [exc |-> "none", job |-> Get(completed, entity_name)]
    ELSE [exc |-> "KeyError", job |-> 0]

\* JobManager.__getitem__: the Job found, or KeyError.
GetItem(entity_name) ==
    IF entity_name \in Keys(db_jobs)
    THEN [exc |-> "none", job |-> Get(db_jobs, entity_name)]
    ELSE IF entity_name \in Keys(jobs)
    THEN [exc |-> "none", job |-> Get(jobs, entity_name)]
    ELSE IF entity_name \in Keys(completed)
    THEN [exc |-> "none", job |-> Get(completed, entity_name)]
    ELSE [exc |-> "KeyError", job |-> 0]

\* JobManager.query_restart
query_restart(entity_name) == entity_name \in Keys(completed)

\* move_to_completed that removes the Job's entity from jobs and db_jobs
\* before it evaluates job.ename.
MoveToCompletedRemoveFirst(job) ==
    LET n == objs[job].entity.name
    IN  [exc |-> "AttributeError", objs |-> objs, completed |-> completed,
         db_jobs |-> IF n \in Keys(db_jobs) THEN Del(db_jobs, n) ELSE db_jobs,
         jobs |-> IF n \in Keys(jobs) THEN Del(jobs, n) ELSE jobs]

\* JobManager.move_to_completed, from acquire to release: the collections and
\* the Jobs it leaves behind, and the exception it ends with ("none" when it
\* returns).  The key job.ename is evaluated first; a Job without that
\* attribute raises AttributeError before anything is stored.
MoveToCompleted(job) ==
    IF ~HasAttr(objs[job], "ename")
    THEN [exc |-> "AttributeError", objs |-> objs, jobs |-> jobs,
          db_jobs |-> db_jobs, completed |-> completed]
    ELSE LET ename == objs[job]["ename"]
         IN  [exc |-> "none",
              objs |-> [objs EXCEPT ![job] = RecordHistory(objs[job])],
              completed |-> Put(completed, ename, job),
              db_jobs |-> IF ename \in Keys(db_jobs)
                          THEN Del(db_jobs, ename) ELSE db_jobs,
              jobs |-> IF ename \notin Keys(db_jobs) /\ ename \in Keys(jobs)
                       THEN Del(jobs, ename) ELSE jobs]

\* The loop of check_jobs: for status, job in zip(statuses, jobs):
\* job.set_status(status.status, status.launcher_status, status.returncode,
\* error=status.error, output=status.output).  Gives the Jobs after the loop
\* and the exception that ended it.
RECURSIVE ApplyStatuses(_, _, _)
ApplyStatuses(os, statuses, js) ==
    IF statuses = <<>> \/ js = <<>> THEN [exc |-> "none", objs |-> os]
    ELSE LET status == Head(statuses)
             job == Head(js)
             call == BindArgs(SetStatusParams, SetStatusDefaults,
                              <<status.status, status.launcher_status,
                                status.returncode>>,
                              [k \in {"error", "output"} |-> status[k]])
         IN  IF ~call.ok THEN [exc |-> "TypeError", objs |-> os]
             ELSE ApplyStatuses(
                      [os EXCEPT ![job] = SetStatusBody(os[job], call.args)],
                      Tail(statuses), Tail(js))

\* restart_job that puts the Job manager[entity_name] back into jobs when the
\* entity is not in completed.
RestartJobLenient(job_name, job_id, entity_name) ==
    [exc |-> "none", objs |-> objs, db_jobs |-> db_jobs,
     completed |-> completed,
     jobs |-> IF entity_name \in Keys(db_jobs)
              THEN Put(jobs, entity_name, Get(db_jobs, entity_name))
              ELSE jobs]

\* JobManager.restart_job, from acquire to release.
RestartJob(job_name, job_id, entity_name) ==
    IF entity_name \notin Keys(completed)
    THEN [exc |-> "KeyError", objs |-> objs, jobs |-> jobs, db_jobs |-> db_jobs,
          completed |-> completed]
    ELSE LET job == Get(completed, entity_name)
             completed1 == Del(completed, entity_name)
             call == BindArgs(ResetParams, EmptyMap, <<job_name, job_id>>,
                              EmptyMap)
         IN  IF ~call.ok
             THEN [exc |-> "TypeError", objs |-> objs, jobs |-> jobs,
                   db_jobs |-> db_jobs, completed |-> completed1]
             ELSE [exc |-> "none",
                   objs |-> [objs EXCEPT ![job] = ResetBody(objs[job], call.args)],
                   completed |-> completed1,
                   db_jobs |-> IF IsDb(objs[job].entity)
                               THEN Put(db_jobs, entity_name, job) ELSE db_jobs,
                   jobs |-> IF IsDb(objs[job].entity)
                            THEN jobs ELSE Put(jobs, entity_name, job)]

\* The body of set_db_hosts for an orchestrator that is no batch:
\* for dbnode in orchestrator: self.db_jobs[dbnode.name].hosts = [dbnode.host]
RECURSIVE SetNodeHosts(_, _)
SetNodeHosts(os, nodes) ==
    IF nodes = <<>> THEN [exc |-> "none", objs |-> os]
    ELSE IF Head(nodes).name \notin Keys(db_jobs)
    THEN [exc |-> "KeyError", objs |-> os]
    ELSE LET job == Get(db_jobs, Head(nodes).name)
         IN  SetNodeHosts(
                 [os EXCEPT ![job] = SetAttr(os[job], "hosts", <<Head(nodes).host>>)],
                 Tail(nodes))

\* JobManager.set_db_hosts, from acquire to release.
SetDbHosts(orchestrator) ==
    IF orchestrator.batch
    THEN IF orchestrator.name \notin Keys(db_jobs)
         THEN [exc |-> "KeyError", objs |-> objs]
         ELSE LET job == Get(db_jobs, orchestrator.name)
              IN  [exc |-> "none",
                   objs |-> [objs EXCEPT
                       ![job] = SetAttr(objs[job], "hosts", orchestrator.hosts)]]
    ELSE SetNodeHosts(objs, orchestrator.nodes)

\* get_db_host_addresses that pairs the hosts of a db job with its ports one
\* to one.
GetDbHostAddressesZip ==
    LET dbs == Values(db_jobs)
    IN  IF \E i \in 1..Len(dbs) : ~HasAttr(objs[dbs[i]], "hosts")
        THEN [exc |-> "AttributeError", addresses |-> <<>>]
        ELSE [exc |-> "none",
              addresses |->
                  Concat([i \in 1..Len(dbs) |->
                      LET hosts == objs[dbs[i]]["hosts"]
                          ports == objs[dbs[i]].entity.ports
                      IN  [k \in 1..Min(Len(hosts), Len(ports)) |->
                              Join(":", <<get_ip_from_host(hosts[k]),
                                          StrOfPort(ports[k])>>)]])]

\* JobManager.get_db_host_addresses: for every db job, in the order of
\* db_jobs, an address for every pair of itertools.product(db_job.hosts,
\* db_job.entity.ports); AttributeError for a db job that has no hosts yet.
GetDbHostAddresses ==
    LET dbs == Values(db_jobs)
    IN  IF \E i \in 1..Len(dbs) : ~HasAttr(objs[dbs[i]], "hosts")
        THEN [exc |-> "AttributeError", addresses |-> <<>>]
        ELSE [exc |-> "none",
              addresses |->
                  Concat([i \in 1..Len(dbs) |->
                      LET combines == Product(<<objs[dbs[i]]["hosts"],
                                                objs[dbs[i]].entity.ports>>)
                      IN  [k \in 1..Len(combines) |->
                              Join(":", <<get_ip_from_host(combines[k][1]),
                                          StrOfPort(combines[k][2])>>)]])]

\* ------------------------------------------------- the Controller's thread
\* Some start() has been called.
Started == \E t \in Threads : th[t].pc # "idle"

\* A thread is running JobManager.run.
Alive(t) == th[t].pc \notin {"idle", "done", "dead"}

\* JobManager.start: a new thread whose target is run, whether or not an
\* earlier one is still running.
start ==
    /\ ctl.pc = "ret"
    /\ \E t \in Threads :
        /\ ~Alive(t)
        /\ \A u \in Threads : u < t => Alive(u)
        /\ th' = [th EXCEPT ![t] = [NoThread EXCEPT !.pc = "run"]]
    /\ ctl' = [NoCall EXCEPT !.op = "start"]
    /\ UNCHANGED <<objs, jobs, db_jobs, completed, actively_monitoring, lock,
                   addedAfterStart, reentrant, strategyVars>>

\* add_job that also marks the manager as monitoring.
add_job_resumes(job_name, job_id, entity) ==
    /\ ctl.pc = "ret"
    /\ Len(objs) < MaxAdds
    /\ objs' = Append(objs, NewJob(job_name, job_id, entity))
    /\ IF IsDb(entity)
       THEN /\ db_jobs' = Put(db_jobs, entity.name, Len(objs) + 1)
            /\ jobs' = jobs
       ELSE /\ jobs' = Put(jobs, entity.name, Len(objs) + 1)
            /\ db_jobs' = db_jobs
    /\ ctl' = [NoCall EXCEPT !.op = "add_job", !.job_name = job_name,
                             !.job_id = job_id, !.ename = entity.name,
                             !.job = Len(objs) + 1]
    /\ addedAfterStart' = (addedAfterStart \/ Started)
    /\ actively_monitoring' = TRUE
    /\ UNCHANGED <<completed, lock, th, reentrant, strategyVars>>

\* JobManager.add_job: takes no lock.
add_job(job_name, job_id, entity) ==
    /\ ctl.pc = "ret"
    /\ Len(objs) < MaxAdds
    /\ objs' = Append(objs, NewJob(job_name, job_id, entity))
    /\ IF IsDb(entity)
       THEN /\ db_jobs' = Put(db_jobs, entity.name, Len(objs) + 1)
            /\ jobs' = jobs
       ELSE /\ jobs' = Put(jobs, entity.name, Len(objs) + 1)
            /\ db_jobs' = db_jobs
    /\ ctl' = [NoCall EXCEPT !.op = "add_job", !.job_name = job_name,
                             !.job_id = job_id, !.ename = entity.name,
                             !.job = Len(objs) + 1]
    /\ addedAfterStart' = (addedAfterStart \/ Started)
    /\ UNCHANGED <<completed, actively_monitoring, lock, th, reentrant, strategyVars>>

\* The Controller calls move_to_completed on a Job the manager tracks.
ctl_move_to_completed(job) ==
    /\ ctl.pc = "ret"
    /\ lock = 0
    /\ job \in Range(Values(jobs)) \cup Range(Values(db_jobs))
    /\ LET r == MoveToCompleted(job)
       IN  /\ objs' = r.objs
           /\ jobs' = r.jobs
           /\ db_jobs' = r.db_jobs
           /\ completed' = r.completed
           /\ ctl' = [NoCall EXCEPT !.op = "move_to_completed",
                                    !.ename = objs[job].entity.name,
                                    !.job = job, !.exc = r.exc]
    /\ UNCHANGED <<actively_monitoring, lock, th, addedAfterStart, reentrant, strategyVars>>

\* The Controller calls restart_job.  ctl.job: the Job manager[entity_name]
\* gave before the call, ctl.runs: its history.runs then; ctl.moved: the
\* Controller's call before this one was move_to_completed on the Job of the
\* same entity.
restart_job(job_name, job_id, entity_name) ==
    /\ ctl.pc = "ret"
    /\ lock = 0
    /\ LET r == RestartJob(job_name, job_id, entity_name)
       IN  /\ objs' = r.objs
           /\ jobs' = r.jobs
           /\ db_jobs' = r.db_jobs
           /\ completed' = r.completed
           /\ ctl' = [NoCall EXCEPT !.op = "restart_job", !.job_name = job_name,
                                    !.job_id = job_id, !.ename = entity_name,
                                    !.job = GetItem(entity_name).job,
                                    !.moved = /\ ctl.op = "move_to_completed"
                                              /\ ctl.ename = entity_name,
                                    !.runs =
                                        IF GetItem(entity_name).exc = "none"
                                        THEN objs[GetItem(entity_name).job].history.runs
                                        ELSE 0,
                                    !.exc = r.exc]
    /\ UNCHANGED <<actively_monitoring, lock, th, addedAfterStart, reentrant, strategyVars>>

\* The Controller evaluates manager[entity_name]: acquire, the lookup,
\* release in finally.
ctl_getitem(entity_name) ==
    /\ ctl.pc = "ret"
    /\ lock = 0
    /\ LET r == GetItem(entity_name)
       IN  ctl' = [NoCall EXCEPT !.op = "getitem", !.ename = entity_name,
                                 !.job = r.job, !.exc = r.exc]
    /\ UNCHANGED <<objs, jobs, db_jobs, completed, actively_monitoring, lock,
                   th, addedAfterStart, reentrant, strategyVars>>

\* JobManager.is_finished, up to the call self[entity.name]: the lock is
\* acquired.
is_finished(entity) ==
    /\ ctl.pc = "ret"
    /\ lock = 0
    /\ lock' = Controller
    /\ ctl' = [NoCall EXCEPT !.op = "is_finished", !.ename = entity.name,
                             !.pc = "getitem", !.held = 1]
    /\ UNCHANGED <<objs, jobs, db_jobs, completed, actively_monitoring, th,
                   addedAfterStart, reentrant, strategyVars>>

\* self[entity.name] inside is_finished and get_status: __getitem__ acquires
\* the lock its caller holds.  An RLock counts the acquisition; on a Lock the
\* acquire never returns.
getitem_acquire ==
    /\ ctl.pc = "getitem"
    /\ lock = 0 \/ (lock = Controller /\ reentrant)
    /\ lock' = Controller
    /\ ctl' = [ctl EXCEPT !.pc = "lookup", !.held = ctl.held + 1]
    /\ UNCHANGED <<objs, jobs, db_jobs, completed, actively_monitoring, th,
                   addedAfterStart, reentrant, strategyVars>>

\* is_finished, the rest: the lookup and the release of __getitem__, the test
\* on completed and the status, the release in finally.  KeyError when the
\* lookup raised.
is_finished_return ==
    /\ ctl.pc = "lookup"
    /\ ctl.op = "is_finished"
    /\ LET r == GetItem(ctl.ename)
       IN  ctl' = [ctl EXCEPT
                      !.pc = "ret", !.held = ctl.held - 2, !.job = r.job,
                      !.exc = r.exc,
                      !.result =
                          IF r.exc # "none" THEN None
                          ELSE IF /\ ctl.ename \in Keys(completed)
                                  /\ objs[r.job].status \in TERMINAL_STATUSES
                          THEN "True" ELSE "False"]
    /\ lock' = IF ctl'.held = 0 THEN 0 ELSE lock
    /\ UNCHANGED <<objs, jobs, db_jobs, completed, actively_monitoring, th,
                   addedAfterStart, reentrant, strategyVars>>

\* JobManager.get_status, up to the call self[entity.name]: the lock is
\* acquired; an entity in completed gives that Job's status at once, with the
\* release in finally.
get_status(entity) ==
    /\ ctl.pc = "ret"
    /\ lock = 0
    /\ IF entity.name \in Keys(completed)
       THEN /\ lock' = 0
            /\ ctl' = [NoCall EXCEPT
                           !.op = "get_status", !.ename = entity.name,
                           !.job = Get(completed, entity.name),
                           !.result = objs[Get(completed, entity.name)].status]
       ELSE /\ lock' = Controller
            /\ ctl' = [NoCall EXCEPT !.op = "get_status", !.ename = entity.name,
                                     !.pc = "getitem", !.held = 1]
    /\ UNCHANGED <<objs, jobs, db_jobs, completed, actively_monitoring, th,
                   addedAfterStart, reentrant, strategyVars>>

\* get_status, the rest: the lookup and the release of __getitem__; KeyError
\* becomes SmartSimError; the release in finally; return job.status.
get_status_return ==
    /\ ctl.pc = "lookup"
    /\ ctl.op = "get_status"
    /\ LET r == GetItem(ctl.ename)
       IN  ctl' = [ctl EXCEPT
                      !.pc = "ret", !.held = ctl.held - 2, !.job = r.job,
                      !.exc = IF r.exc = "KeyError" THEN "SmartSimError"
                              ELSE r.exc,
                      !.result = IF r.exc = "none" THEN objs[r.job].status
                                 ELSE None]
    /\ lock' = IF ctl'.held = 0 THEN 0 ELSE lock
    /\ UNCHANGED <<objs, jobs, db_jobs, completed, actively_monitoring, th,
                   addedAfterStart, reentrant, strategyVars>>

\* The Controller calls set_db_hosts.
set_db_hosts(orchestrator) ==
    /\ ctl.pc = "ret"
    /\ lock = 0
    /\ LET r == SetDbHosts(orchestrator)
       IN  /\ objs' = r.objs
           /\ ctl' = [NoCall EXCEPT !.op = "set_db_hosts",
                                    !.ename = orchestrator.name, !.exc = r.exc]
    /\ UNCHANGED <<jobs, db_jobs, completed, actively_monitoring, lock, th,
                   addedAfterStart, reentrant, strategyVars>>

\* The Controller calls get_db_host_addresses: no lock is taken.
get_db_host_addresses ==
    /\ ctl.pc = "ret"
    /\ LET r == GetDbHostAddresses
       IN  ctl' = [NoCall EXCEPT !.op = "get_db_host_addresses",
                                 !.exc = r.exc, !.addresses = r.addresses]
    /\ UNCHANGED <<objs, jobs, db_jobs, completed, actively_monitoring, lock,
                   th, addedAfterStart, reentrant, strategyVars>>

\* --------------------------------------- the polling thread: JobManager.run
\* run, up to the loop: self.actively_monitoring = True
run_enter(t) ==
    /\ th[t].pc = "run"
    /\ actively_monitoring' = TRUE
    /\ th' = [th EXCEPT ![t].pc = "while"]
    /\ UNCHANGED <<objs, jobs, db_jobs, completed, lock, ctl,
                   addedAfterStart, reentrant, strategyVars>>

\* while self.actively_monitoring: the thread ends when the flag is clear.
run_while(t) ==
    /\ th[t].pc = "while"
    /\ th' = [th EXCEPT ![t].pc = IF actively_monitoring THEN "check" ELSE "done"]
    /\ UNCHANGED <<objs, jobs, db_jobs, completed, actively_monitoring, lock,
                   ctl, addedAfterStart, reentrant, strategyVars>>

\* check_jobs after the sleep: acquire the lock, jobs = self().values().
check_jobs_acquire(t) ==
    /\ th[t].pc = "check"
    /\ lock = 0
    /\ lock' = t
    /\ th' = [th EXCEPT ![t].pc = "update", ![t].jobs = Values(AllJobs),
                        ![t].statuses = <<>>, ![t].requests = <<>>]
    /\ UNCHANGED <<objs, jobs, db_jobs, completed, actively_monitoring, ctl,
                   addedAfterStart, reentrant, strategyVars>>

\* job_names = [job.name for job in jobs]
JobNames(js) == [i \in 1..Len(js) |-> objs[js[i]].name]

\* check_jobs that asks the launcher once for every job.
check_jobs_update_per_job(t, statuses) ==
    /\ th[t].pc = "update"
    /\ LET r == ApplyStatuses(objs, statuses, th[t].jobs)
       IN  /\ objs' = r.objs
           /\ th' = [th EXCEPT ![t].pc = IF r.exc = "none" THEN "scan" ELSE "dead",
                               ![t].statuses = statuses,
                               ![t].requests =
                                   [i \in 1..Len(th[t].jobs) |->
                                       <<objs[th[t].jobs[i]].name>>],
                               ![t].exc = r.exc]
    /\ lock' = 0
    /\ UNCHANGED <<jobs, db_jobs, completed, actively_monitoring, ctl,
                   addedAfterStart, reentrant, strategyVars>>

\* check_jobs whose release is not in a finally: an exception leaves the lock
\* with the thread.
check_jobs_update_no_finally(t, statuses) ==
    /\ th[t].pc = "update"
    /\ LET r == ApplyStatuses(objs, statuses, th[t].jobs)
       IN  /\ objs' = r.objs
           /\ th' = [th EXCEPT ![t].pc = IF r.exc = "none" THEN "scan" ELSE "dead",
                               ![t].statuses = statuses,
                               ![t].requests =
                                   Append(th[t].requests, JobNames(th[t].jobs)),
                               ![t].exc = r.exc]
           /\ lock' = IF r.exc = "none" THEN 0 ELSE lock
    /\ UNCHANGED <<jobs, db_jobs, completed, actively_monitoring, ctl,
                   addedAfterStart, reentrant, strategyVars>>

\* check_jobs, the rest: statuses = get_step_update(job_names), one report
\* per name; the loop over zip(statuses, jobs); release in finally.  An
\* exception leaves run and ends the thread.
check_jobs_update(t, statuses) ==
    /\ th[t].pc = "update"
    /\ LET r == ApplyStatuses(objs, statuses, th[t].jobs)
       IN  /\ objs' = r.objs
           /\ th' = [th EXCEPT ![t].pc = IF r.exc = "none" THEN "scan" ELSE "dead",
                               ![t].statuses = statuses,
                               ![t].requests =
                                   Append(th[t].requests, JobNames(th[t].jobs)),
                               ![t].exc = r.exc]
    /\ lock' = 0
    /\ UNCHANGED <<jobs, db_jobs, completed, actively_monitoring, ctl,
                   addedAfterStart, reentrant, strategyVars>>

\* for _, job in self().items(): the dict is built once, without the lock.
run_scan(t) ==
    /\ th[t].pc = "scan"
    /\ th' = [th EXCEPT ![t].pc = "visit", ![t].items = Values(AllJobs)]
    /\ UNCHANGED <<objs, jobs, db_jobs, completed, actively_monitoring, lock,
                   ctl, addedAfterStart, reentrant, strategyVars>>

\* One pass of the for loop's body, or its end.  A job with a return code
\* and a terminal status is moved to completed, whatever the return code;
\* the two branches differ in what they log.
run_visit(t) ==
    /\ th[t].pc = "visit"
    /\ IF th[t].items = <<>>
       THEN /\ th' = [th EXCEPT ![t].pc = "test"]
            /\ UNCHANGED <<objs, jobs, db_jobs, completed>>
       ELSE LET job == Head(th[t].items)
            IN  IF objs[job].returncode # None
                   /\ objs[job].status \in TERMINAL_STATUSES
                THEN /\ lock = 0
                     /\ LET r == MoveToCompleted(job)
                        IN  /\ objs' = r.objs
                            /\ jobs' = r.jobs
                            /\ db_jobs' = r.db_jobs
                            /\ completed' = r.completed
                            /\ th' = [th EXCEPT
                                   ![t].pc = IF r.exc = "none" THEN "visit" ELSE "dead",
                                   ![t].items = Tail(th[t].items),
                                   ![t].exc = r.exc]
                ELSE /\ th' = [th EXCEPT ![t].items = Tail(th[t].items)]
                     /\ UNCHANGED <<objs, jobs, db_jobs, completed>>
    /\ UNCHANGED <<actively_monitoring, lock, ctl, addedAfterStart, reentrant, strategyVars>>

\* if not self():
run_test(t) ==
    /\ th[t].pc = "test"
    /\ th' = [th EXCEPT ![t].pc = IF AllJobs = <<>> THEN "clear" ELSE "while"]
    /\ UNCHANGED <<objs, jobs, db_jobs, completed, actively_monitoring, lock,
                   ctl, addedAfterStart, reentrant, strategyVars>>

\* self.actively_monitoring = False
run_clear(t) ==
    /\ th[t].pc = "clear"
    /\ actively_monitoring' = FALSE
    /\ th' = [th EXCEPT ![t].pc = "while"]
    /\ UNCHANGED <<objs, jobs, db_jobs, completed, lock, ctl,
                   addedAfterStart, reentrant, strategyVars>>

\* A step of the thread t.
run(t) ==
    \/ run_enter(t)
    \/ run_while(t)
    \/ check_jobs_acquire(t)
    \/ \E statuses \in [1..Len(th[t].jobs) -> StatusReports] :
           check_jobs_update(t, statuses)
    \/ run_scan(t)
    \/ run_visit(t)
    \/ run_test(t)
    \/ run_clear(t)

\* ----------------------------------------------------------- specification
Next ==
    \/ start
    \/ \E step \in Steps, entity \in Entities :
           add_job(step.name, step.id, entity)
    \/ \E job \in 1..Len(objs) : ctl_move_to_completed(job)
    \/ \E step \in Steps, entity_name \in EntityNames :
           restart_job(step.name, step.id, entity_name)
    \/ \E entity_name \in EntityNames : ctl_getitem(entity_name)
    \/ \E entity \in Entities : is_finished(entity)
    \/ \E entity \in Entities : get_status(entity)
    \/ getitem_acquire
    \/ is_finished_return
    \/ get_status_return
    \/ \E orchestrator \in Orchestrators : set_db_hosts(orchestrator)
    \/ \E t \in Threads : run(t)

Spec == Init /\ [][Next]_vars

\* The Controller only calls start(), any number of times: a manager without
\* jobs and the threads polling for it.
InitStart ==
    /\ objs = <<>>
    /\ jobs = <<>>
    /\ db_jobs = <<>>
    /\ completed = <<>>
    /\ actively_monitoring = FALSE
    /\ lock = 0
    /\ th = [t \in 1..MaxStarts |-> NoThread]
    /\ ctl = NoCall
    /\ addedAfterStart = FALSE
    /\ reentrant \in BOOLEAN
    /\ REGISTERED_STRATEGIES = ImportedStrategies
    /\ gen = NoGen

NextStart ==
    \/ start
    \/ \E t \in Threads : run(t)

SpecStart == InitStart /\ [][NextStart]_vars

\* The launch of databases: the Controller adds the jobs of database
\* entities and of a model, sets the hosts and asks for the addresses.
NextDb ==
    \/ \E step \in Steps, entity \in DbEntities \cup {e \in Entities : ~e.db} :
           add_job(step.name, step.id, entity)
    \/ \E orchestrator \in DbOrchestrators : set_db_hosts(orchestrator)
    \/ get_db_host_addresses

SpecDb == Init /\ [][NextDb]_vars

\* ---------------------------------------------------- the strategies module
MaxN == 3

\* The calls of the module in one behaviour.
MaxCalls == 1

\* The arguments of the calls: params, exe_args and n_permutations.
ParamMaps ==
    {<<>>,
     << <<"X", <<"1", "2">>>> >>,
     << <<"X", <<"1", "2">>>>, <<"Y", <<"a", "b">>>> >>,
     << <<"X", <<"1", "2", "3">>>>, <<"Y", <<"a", "b">>>> >>}

ExeArgMaps ==
    {<<>>,
     << <<"E", << <<"-v">>, <<"-q">> >>>> >>,
     << <<"E", << <<"-v">>, <<"-q">>, <<"-x">> >>>> >>}

NValues == (0 - 1)..MaxN

\* resolve(strategy)
resolve(strategy) ==
    LET r == Resolve(REGISTERED_STRATEGIES, strategy)
    IN  /\ gen.calls < MaxCalls
        /\ gen' = [NoGen EXCEPT !.calls = gen.calls + 1,
                                !.op = "resolve", !.strategy = strategy,
                                !.exc = r.exc, !.msg = r.msg, !.fn = r.fn]
        /\ UNCHANGED <<objs, jobs, db_jobs, completed, actively_monitoring,
                       lock, th, ctl, addedAfterStart, reentrant,
                       REGISTERED_STRATEGIES>>

\* resolve(strategy)(params, exe_args) for nargs = 2 and
\* resolve(strategy)(params, exe_args, n) for nargs = 3.
call_strategy(strategy, params, exe_args, nargs, n) ==
    LET r == Resolve(REGISTERED_STRATEGIES, strategy)
        pos == IF nargs = 2 THEN <<params, exe_args>>
               ELSE <<params, exe_args, n>>
        c == Call(r.fn, pos)
    IN  /\ gen.calls < MaxCalls
        /\ r.exc = "none"
        /\ nargs = 2 => n = 0
        /\ gen' = [NoGen EXCEPT !.calls = gen.calls + 1,
                                !.op = "call", !.strategy = strategy,
                                !.params = params, !.exe_args = exe_args,
                                !.nargs = nargs, !.n = n, !.fn = r.fn,
                                !.exc = c.exc, !.ident = c.ident,
                                !.result = c.result,
                                !.fcalls = c.fcalls]
        /\ UNCHANGED <<objs, jobs, db_jobs, completed, actively_monitoring,
                       lock, th, ctl, addedAfterStart, reentrant,
                       REGISTERED_STRATEGIES>>

\* resolve(strategy)(params) for nargs = 1 and resolve(strategy)(params, n)
\* for nargs = 2: the calls of a TPermutationStrategy, for the functions
\* that declare (params, n_permutations).
call_permutation_strategy(strategy, params, nargs, n) ==
    LET r == Resolve(REGISTERED_STRATEGIES, strategy)
        pos == IF nargs = 1 THEN <<params>> ELSE <<params, n>>
        c == Call(r.fn, pos)
    IN  /\ gen.calls < MaxCalls
        /\ r.exc = "none"
        /\ r.fn.def \in {"random_permutations", "_impl"}
        /\ nargs = 1 => n = 0
        /\ gen' = [NoGen EXCEPT !.calls = gen.calls + 1,
                                !.op = "call_permutation",
                                !.strategy = strategy, !.params = params,
                                !.nargs = nargs, !.n = n, !.fn = r.fn,
                                !.exc = c.exc, !.ident = c.ident,
                                !.result = c.result,
                                !.fcalls = c.fcalls]
        /\ UNCHANGED <<objs, jobs, db_jobs, completed, actively_monitoring,
                       lock, th, ctl, addedAfterStart, reentrant,
                       REGISTERED_STRATEGIES>>

NextStrategy ==
    \/ \E strategy \in Strategies : resolve(strategy)
    \/ \E strategy \in Strategies, params \in ParamMaps,
          exe_args \in ExeArgMaps, nargs \in {2, 3}, n \in NValues :
            call_strategy(strategy, params, exe_args, nargs, n)
    \/ \E strategy \in Strategies, params \in ParamMaps, nargs \in {1, 2},
          n \in NValues :
            call_permutation_strategy(strategy, params, nargs, n)

SpecStrategy == Init /\ [][NextStrategy]_vars


\* ------------------------------------------------ the methods of one Job
\* Job(job_name, job_id, entity)
job_init(job_name, job_id, entity) ==
    /\ Len(objs) < MaxJobs
    /\ objs' = Append(objs, NewJob(job_name, job_id, entity))
    /\ UNCHANGED <<jobs, db_jobs, completed, actively_monitoring, lock, th,
                   ctl, addedAfterStart, reentrant, strategyVars>>

\* job.set_status(status, returncode, error=..., output=...) with the fields
\* of a report, as the signature of set_status has them.
job_set_status(job, r) ==
    /\ LET call == BindArgs(SetStatusParams, SetStatusDefaults,
                            <<r.status, r.returncode>>,
                            [k \in {"error", "output"} |-> r[k]])
       IN  /\ call.ok
           /\ objs' = [objs EXCEPT ![job] = SetStatusBody(objs[job], call.args)]
    /\ UNCHANGED <<jobs, db_jobs, completed, actively_monitoring, lock, th,
                   ctl, addedAfterStart, reentrant, strategyVars>>

\* job.record_history()
job_record_history(job) ==
    /\ objs' = [objs EXCEPT ![job] = RecordHistory(objs[job])]
    /\ UNCHANGED <<jobs, db_jobs, completed, actively_monitoring, lock, th,
                   ctl, addedAfterStart, reentrant, strategyVars>>

\* job.reset(new_job_id)
job_reset(job, new_job_id) ==
    /\ objs[job].history.runs < MaxResets
    /\ LET call == BindArgs(ResetParams, EmptyMap, <<new_job_id>>, EmptyMap)
       IN  /\ call.ok
           /\ objs' = [objs EXCEPT ![job] = ResetBody(objs[job], call.args)]
    /\ UNCHANGED <<jobs, db_jobs, completed, actively_monitoring, lock, th,
                   ctl, addedAfterStart, reentrant, strategyVars>>

NextJob ==
    \/ \E step \in Steps, entity \in Entities :
           job_init(step.name, step.id, entity)
    \/ \E job \in 1..Len(objs), r \in StatusReports : job_set_status(job, r)
    \/ \E job \in 1..Len(objs) : job_record_history(job)
    \/ \E job \in 1..Len(objs), step \in Steps : job_reset(job, step.id)

SpecJob == Init /\ [][NextJob]_vars

\* ------------------------------------------------------------------ claims
\* The Job stored under an entity name in one collection.
InJobs(n) == n \in Keys(jobs)

InDbJobs(n) == n \in Keys(db_jobs)

InCompleted(n) == n \in Keys(completed)

\* A report of a terminal status with a return code.
TerminalReport(r) == r.returncode # None /\ r.status \in TERMINAL_STATUSES

\* The Job's fields are those of the report.
Reported(job, r) ==
    /\ job.status = r.status
    /\ job.returncode = r.returncode
    /\ job.error = r.error
    /\ job.output = r.output

\* The Job's current state is in its History at the current run index.
HistoryRecorded(job) ==
    LET h == job.history
    IN  /\ h.runs \in DOMAIN h.statuses
        /\ h.jids[h.runs] = job.jid
        /\ h.statuses[h.runs] = job.status
        /\ h.returns[h.runs] = job.returncode
        /\ h.errors[h.runs] = job.error
        /\ h.outputs[h.runs] = job.output

\* C1: no entity name is a key of more than one of jobs, db_jobs and
\* completed, in any reachable state.
C1_AtMostOneCollection ==
    \A n \in EntityNames :
        /\ ~(InJobs(n) /\ InDbJobs(n))
        /\ ~(InJobs(n) /\ InCompleted(n))
        /\ ~(InDbJobs(n) /\ InCompleted(n))

\* C2: a move_to_completed call on a Job that is in jobs or db_jobs returns
\* with the Job's entity name a key of completed, mapped to that Job, a key
\* of neither jobs nor db_jobs, and the Job's state recorded in its History
\* at the current run index.
C2_MoveToCompletedPost ==
    ctl.op = "move_to_completed" =>
        /\ ctl.exc = "none"
        /\ InCompleted(ctl.ename)
        /\ Get(completed, ctl.ename) = ctl.job
        /\ ~InJobs(ctl.ename)
        /\ ~InDbJobs(ctl.ename)
        /\ HistoryRecorded(objs[ctl.job])

\* C3: the restart round trip.  restart_job on the entity of a Job that the
\* Controller has just moved to completed returns; the Job then has status
\* NEW, the new job id and one more run, is in the active collection of its
\* kind and not in completed, and query_restart is false for it.
C3_RestartRoundTrip ==
    (ctl.op = "restart_job" /\ ctl.moved) =>
        /\ ctl.exc = "none"
        /\ objs[ctl.job].status = "NEW"
        /\ objs[ctl.job].jid = ctl.job_id
        /\ objs[ctl.job].history.runs = ctl.runs + 1
        /\ IF IsDb(objs[ctl.job].entity)
           THEN InDbJobs(ctl.ename) /\ Get(db_jobs, ctl.ename) = ctl.job
           ELSE InJobs(ctl.ename) /\ Get(jobs, ctl.ename) = ctl.job
        /\ ~InCompleted(ctl.ename)
        /\ ~query_restart(ctl.ename)

\* A step in which add_job created a Job.
AddJobStep == Len(objs') = Len(objs) + 1

\* C4 as claimed: immediately after add_job(n, id, entity), manager[n] returns
\* a Job with status NEW and jid id, also when the entity's name is not n.
C4_ByJobNamePost ==
    LET r == GetItem(ctl.job_name)
    IN  /\ r.exc = "none"
        /\ objs[r.job].status = "NEW"
        /\ objs[r.job].jid = ctl.job_id

C4_LookupByJobName == [][AddJobStep => C4_ByJobNamePost']_vars

\* C4 as amended: immediately after add_job(n, id, entity), manager[entity.name]
\* returns a Job.  It is the Job just added, with status NEW, jid id and name
\* n, unless the entity is no database entity and db_jobs holds a Job under
\* the same name: then the lookup returns that Job of db_jobs.
C4_ByEntityNamePost ==
    LET r == GetItem(ctl.ename)
        shadowed == ~IsDb(objs[ctl.job].entity) /\ InDbJobs(ctl.ename)
    IN  /\ r.exc = "none"
        /\ ~shadowed =>
               /\ r.job = ctl.job
               /\ objs[r.job].status = "NEW"
               /\ objs[r.job].jid = ctl.job_id
               /\ objs[r.job].name = ctl.job_name
        /\ shadowed => r.job = Get(db_jobs, ctl.ename)

C4_LookupByEntityName == [][AddJobStep => C4_ByEntityNamePost']_vars

\* add_job has just stored a Job whose step name is no entity name: the
\* lookup by entity name gives that Job, the lookup by step name KeyError.
C4_Witness ==
    /\ ctl.op = "add_job"
    /\ ctl.job_name # ctl.ename
    /\ GetItem(ctl.ename).job = ctl.job
    /\ objs[ctl.job].jid = ctl.job_id
    /\ GetItem(ctl.job_name).exc = "KeyError"

\* The Jobs a check_jobs call updates: zip(statuses, jobs) stops at the
\* shorter of the two.
Paired(t) == 1..Min(Len(th[t].statuses), Len(th[t].jobs))

\* A step in which the thread t ends its check_jobs call.
CheckJobsEnds(t) == th[t].pc = "update" /\ th'[t].pc # "update"

\* C5: when a check_jobs call ends, the i-th report's status, returncode, error
\* and output are those of the i-th Job of the snapshot, for every i, and no
\* other Job has changed.
C5_PositionalUpdate ==
    [][\A t \in Threads :
           CheckJobsEnds(t) =>
               /\ \A i \in 1..Min(Len(th'[t].statuses), Len(th[t].jobs)) :
                      Reported(objs'[th[t].jobs[i]], th'[t].statuses[i])
               /\ \A j \in 1..Len(objs) :
                      j \notin Range(th[t].jobs) => objs'[j] = objs[j]]_vars

\* C6: when the for loop of an iteration is over, or the thread has ended,
\* every Job of the iteration's snapshot for which the launcher reported a
\* terminal status with a return code, zero or not, is in completed under its
\* entity's name.
C6_TerminalMovedInIteration ==
    \A t \in Threads :
        th[t].pc \in {"test", "dead"} =>
            \A i \in Paired(t) :
                TerminalReport(th[t].statuses[i]) =>
                    LET job == th[t].jobs[i]
                        n == objs[job].entity.name
                    IN  InCompleted(n) /\ Get(completed, n) = job

\* C7: the loop clears actively_monitoring only when jobs and db_jobs are
\* empty, whatever the Controller's add_job calls do meanwhile.
C7_ClearsOnlyWhenEmpty ==
    [][(actively_monitoring /\ ~actively_monitoring') => Tracked' = {}]_vars

\* C8: the thread that start() created sets actively_monitoring with its
\* first step, and nothing else sets it; add_job leaves the flag and the
\* threads as they are; a thread that has ended stays ended until a start()
\* puts a new one in its place; and while no thread runs no Job's status or
\* return code changes.
C8_NoSelfRestart ==
    [][/\ \A t \in Threads :
              (th[t].pc = "run" /\ th'[t].pc # "run") => actively_monitoring'
       /\ (~actively_monitoring /\ actively_monitoring') =>
              \E t \in Threads : th[t].pc = "run" /\ th'[t].pc = "while"
       /\ AddJobStep => (actively_monitoring' = actively_monitoring /\ th' = th)
       /\ \A t \in Threads :
              ~Alive(t) =>
                  \/ th'[t] = th[t]
                  \/ th'[t].pc = "run" /\ ctl'.op = "start"
       /\ (\A t \in Threads : ~Alive(t)) =>
              \A j \in 1..Len(objs) :
                  /\ objs'[j].status = objs[j].status
                  /\ objs'[j].returncode = objs[j].returncode]_vars

\* The loop has stopped, the Controller's last call was an add_job, the added
\* Job is tracked with status NEW and actively_monitoring is false.
C8_Witness ==
    /\ \E t \in Threads : th[t].pc = "done"
    /\ \A t \in Threads : ~Alive(t)
    /\ ctl.op = "add_job"
    /\ addedAfterStart
    /\ ctl.ename \in Tracked
    /\ objs[ctl.job].status = "NEW"
    /\ ~actively_monitoring

\* C9, as what a run that has come to its end must show: when start() was
\* called, the Controller added no job after it, every report the launcher
\* gave was a terminal status with a return code and no thread is running any
\* more, then jobs and db_jobs are empty, every registered entity is in
\* completed and actively_monitoring is false.
C9_AllCompletedWhenLoopEnds ==
    ( /\ Started
      /\ ~addedAfterStart
      /\ \A t \in Threads : ~Alive(t)
      /\ \A t \in Threads : \A i \in 1..Len(th[t].statuses) :
             TerminalReport(th[t].statuses[i]) )
    => /\ Tracked = {}
       /\ ~actively_monitoring
       /\ \A j \in 1..Len(objs) : InCompleted(objs[j].entity.name)

\* C10: a report of a terminal status with a non-zero return code does not
\* end the polling thread, and once the iteration's for loop is over that
\* Job is in completed.
C10_FailureKeepsLoopRunning ==
    \A t \in Threads : \A i \in Paired(t) :
        ( /\ TerminalReport(th[t].statuses[i])
          /\ th[t].statuses[i].returncode # "0" )
        => /\ th[t].pc # "dead"
           /\ th[t].pc = "test" => InCompleted(objs[th[t].jobs[i]].entity.name)

\* C11: a thread whose lock-guarded operation has returned or raised does not
\* hold the lock: the Controller holds it only inside a call, a polling thread
\* only inside check_jobs, also when the status update raised.
C11_LockReleasedAfterOperation ==
    /\ ctl.pc = "ret" => (lock # Controller /\ ctl.held = 0)
    /\ \A t \in Threads : th[t].pc # "update" => lock # t

\* A check_jobs call has ended with TypeError in the status update and a
\* lookup of the Controller with KeyError, and the lock is free.
C11_Witness ==
    /\ \E t \in Threads : th[t].pc = "dead" /\ th[t].exc = "TypeError"
    /\ ctl.op \in {"getitem", "is_finished", "restart_job", "set_db_hosts"}
    /\ ctl.pc = "ret"
    /\ ctl.exc = "KeyError"
    /\ lock = 0

\* C12: check_jobs is atomic: between its start and its end no step of
\* another thread changes jobs, db_jobs or completed.
C12_CheckJobsAtomic ==
    [][\A t \in Threads :
           (th[t].pc = "update" /\ th'[t] = th[t]) =>
               UNCHANGED <<jobs, db_jobs, completed>>]_vars

\* C13: no thread comes to acquire the lock while it holds it, and no thread
\* holds it more than once.
C13_NoNestedAcquire ==
    /\ ~(ctl.pc = "getitem" /\ lock = Controller)
    /\ ctl.held <= 1

\* C14: at most one polling loop runs at any time, whatever start() calls
\* the Controller makes.
C14_OnePollingLoop == Cardinality({t \in Threads : Alive(t)}) <= 1

\* The Controller's call waits for a lock that it holds itself and that is
\* not reentrant.
Blocked == ctl.pc = "getitem" /\ lock = Controller /\ ~reentrant

\* The entity name is a key of one of the three collections.
Registered(n) == n \in Keys(jobs) \cup Keys(db_jobs) \cup Keys(completed)

\* C15: is_finished on a registered entity returns; it returns true exactly
\* when the entity's name is a key of completed and that Job's status is
\* terminal, and false when the name is a key of jobs or db_jobs.
C15_IsFinishedResult ==
    (ctl.op = "is_finished" /\ Registered(ctl.ename)) =>
        /\ ~Blocked
        /\ ctl.pc = "ret" =>
               /\ ctl.exc = "none"
               /\ ctl.result = "True" <=>
                      /\ InCompleted(ctl.ename)
                      /\ objs[Get(completed, ctl.ename)].status
                             \in TERMINAL_STATUSES
               /\ ctl.ename \in Tracked => ctl.result = "False"

\* C16: get_status ends; for a registered entity it returns the status of
\* the Job under the entity's name, for any other it raises SmartSimError.
C16_GetStatusResult ==
    ctl.op = "get_status" =>
        /\ ~Blocked
        /\ ctl.pc = "ret" =>
               IF Registered(ctl.ename)
               THEN /\ ctl.exc = "none"
                    /\ ctl.result = objs[GetItem(ctl.ename).job].status
               ELSE ctl.exc = "SmartSimError"

\* A step in which the Controller made the call op.
CallStep(op) == ctl' # ctl /\ ctl'.op = op /\ ctl'.pc = "ret"

\* C17: manager[name] returns the Job under name in db_jobs if there is one,
\* else the one in jobs, else the one in completed; it raises KeyError exactly
\* when name is a key of none of the three; it changes no collection and no
\* Job.
C17_LookupPriority ==
    [][CallStep("getitem") =>
           LET n == ctl'.ename
           IN  /\ UNCHANGED <<objs, jobs, db_jobs, completed>>
               /\ ctl'.exc = "KeyError" <=> ~Registered(n)
               /\ ctl'.exc \in {"none", "KeyError"}
               /\ InDbJobs(n) => ctl'.job = Get(db_jobs, n)
               /\ (~InDbJobs(n) /\ InJobs(n)) => ctl'.job = Get(jobs, n)
               /\ (~InDbJobs(n) /\ ~InJobs(n) /\ InCompleted(n)) =>
                      ctl'.job = Get(completed, n)]_vars

\* manager[name] has returned the Job of db_jobs for a name that is also a
\* key of jobs, mapped to another Job.
C17_Witness ==
    /\ ctl.op = "getitem"
    /\ ctl.exc = "none"
    /\ InDbJobs(ctl.ename)
    /\ InJobs(ctl.ename)
    /\ ctl.job = Get(db_jobs, ctl.ename)
    /\ ctl.job # Get(jobs, ctl.ename)

\* C18: restart_job for an entity name that is no key of completed raises
\* KeyError and leaves jobs, db_jobs, completed and every Job as they were.
C18_RestartAbsentRaises ==
    [][(CallStep("restart_job") /\ ~InCompleted(ctl'.ename)) =>
           /\ ctl'.exc = "KeyError"
           /\ UNCHANGED <<objs, jobs, db_jobs, completed>>]_vars

\* restart_job has raised KeyError for an entity whose Job is active.
C18_Witness ==
    /\ ctl.op = "restart_job"
    /\ ctl.exc = "KeyError"
    /\ ctl.ename \in Tracked
    /\ ~InCompleted(ctl.ename)

\* The five per-run mappings of a History.
HistoryMaps == {"jids", "statuses", "returns", "errors", "outputs"}

\* C19: History is append-only across restarts.  In every step and for every
\* Job: history.runs stays or grows by one; no index leaves a mapping; an
\* entry is written or changed only at the current run index, so the record
\* of a run k that is over (k < history.runs) stays as it is after reset and
\* after the next run is recorded; and the step that changes runs leaves the
\* mappings alone.
C19_HistoryAppendOnly ==
    [][\A j \in 1..Len(objs) :
           LET h == objs[j].history
               g == objs'[j].history
           IN  /\ g.runs \in {h.runs, h.runs + 1}
               /\ \A m \in HistoryMaps :
                      /\ DOMAIN h[m] \subseteq DOMAIN g[m]
                      /\ \A k \in DOMAIN g[m] :
                             (k \notin DOMAIN h[m] \/ g[m][k] # h[m][k]) =>
                                 (k = h.runs /\ g.runs = h.runs)
               /\ (HistoryRecorded(objs[j]) /\ objs'[j].jid # objs[j].jid) =>
                      /\ g.runs = h.runs + 1
                      /\ g.jids[h.runs] = objs[j].jid
                      /\ g.statuses[h.runs] = objs[j].status]_vars

\* A Job whose first run was recorded with a terminal status, which was reset
\* with a new job id and whose second run is recorded too, the first record
\* being kept.
C19_Witness ==
    \E j \in 1..Len(objs) :
        LET h == objs[j].history
        IN  /\ h.runs = 1
            /\ DOMAIN h.statuses = {0, 1}
            /\ h.statuses[0] \in TERMINAL_STATUSES
            /\ h.jids[0] # h.jids[1]
            /\ h.statuses[1] # h.statuses[0]

\* How far a status is along NEW -> running -> terminal.
Rank(status) ==
    IF status = "NEW" THEN 0 ELSE IF status \in TERMINAL_STATUSES THEN 2 ELSE 1

C21_OneRequestPerCheck ==
    [][\A t \in Threads :
           /\ (th[t].pc = "check" /\ th'[t].pc = "update") =>
                  /\ th'[t].jobs = Values(AllJobs)
                  /\ th'[t].requests = <<>>
           /\ CheckJobsEnds(t) =>
                  /\ Len(th'[t].requests) = 1
                  /\ th'[t].requests[1] =
                         [i \in 1..Len(th[t].jobs) |-> objs[th[t].jobs[i]].name]
           /\ (Alive(t) /\ th[t].pc \notin {"check", "update"}) =>
                  th'[t].requests = th[t].requests]_vars

\* An iteration of the loop whose check_jobs made its one request for two
\* tracked Jobs.
C21_Witness ==
    \E t \in Threads :
        /\ th[t].pc \in {"scan", "dead"}
        /\ Len(th[t].jobs) = 2
        /\ Len(th[t].requests) = 1
        /\ Len(th[t].requests[1]) = 2

\* The addresses of one db job: position (a - 1) * |ports| + b holds the pair
\* of the a-th host and the b-th port.
AddressesOf(job) ==
    LET hosts == job["hosts"]
        ports == job.entity.ports
    IN  [k \in 1..(Len(hosts) * Len(ports)) |->
            <<get_ip_from_host(hosts[((k - 1) \div Len(ports)) + 1]), ":",
              StrOfPort(ports[((k - 1) % Len(ports)) + 1])>>]

\* The sum of |hosts| * |ports| over a list of db jobs.
RECURSIVE SumOfProducts(_)
SumOfProducts(js) ==
    IF js = <<>> THEN 0
    ELSE Len(objs[Head(js)]["hosts"]) * Len(objs[Head(js)].entity.ports)
         + SumOfProducts(Tail(js))

\* C22: get_db_host_addresses, when every db job has its hosts, returns for
\* each job of db_jobs, in order, one address for every pair (host, port) of
\* the job's hosts and its entity's ports, and nothing for any other job: as
\* many addresses as the sum over the db jobs of |hosts| * |ports|.  It
\* returns exactly when every db job has hosts.
C22_AddressesAreProduct ==
    ctl.op = "get_db_host_addresses" =>
        LET dbs == Values(db_jobs)
            resolved == \A i \in 1..Len(dbs) : HasAttr(objs[dbs[i]], "hosts")
        IN  /\ ctl.exc = "none" <=> resolved
            /\ resolved =>
                   /\ ctl.addresses =
                          Concat([i \in 1..Len(dbs) |-> AddressesOf(objs[dbs[i]])])
                   /\ Len(ctl.addresses) = SumOfProducts(dbs)

\* The five addresses of two db jobs, hosts h1 and h2 with two ports and host
\* h3 with one port.
C22_Witness ==
    /\ ctl.op = "get_db_host_addresses"
    /\ ctl.exc = "none"
    /\ Len(db_jobs) = 2
    /\ Len(ctl.addresses) = 5
    /\ \E i \in 1..2 : objs[db_jobs[i][2]]["hosts"] = <<"h1", "h2">>
    /\ \E i \in 1..2 : objs[db_jobs[i][2]]["hosts"] = <<"h3">>

\* ---- the strategies
\* The call of the strategy registered under name, with or without a third
\* argument.
StrategyCalled(name) ==
    gen.op = "call" /\ ~gen.strategy.callable /\ gen.strategy.name = name

\* The call gave no positive n_permutations.
NoPositiveN == gen.nargs < 3 \/ gen.n <= 0

\* Every combination of one value per parameter with one value per exe-arg,
\* parameters first and the last name varying fastest.
FullProduct(params, exe_args) ==
    ParamSets(Product(<<Dicts(params, Product(Values(params))),
                        Dicts(exe_args, Product(Values(exe_args)))>>))

\* The product of the lengths of the value lists of a mapping.
RECURSIVE LenProduct(_)
LenProduct(d) ==
    IF d = <<>> THEN 1 ELSE Len(Head(d)[2]) * LenProduct(Tail(d))

\* C23: all_perm called with n_permutations <= 0 or without n_permutations
\* returns every combination of the parameter values and the exe-arg values
\* exactly once: product of the parameter list lengths times product of the
\* exe-arg list lengths ParamSets.
C23_AllPermReturnsAll ==
    (StrategyCalled("all_perm") /\ NoPositiveN) =>
        /\ gen.exc = "none"
        /\ Len(gen.result) = LenProduct(gen.params) * LenProduct(gen.exe_args)
        /\ gen.result = FullProduct(gen.params, gen.exe_args)

\* C24: for n > 0, all_perm returns the first min(n, total) elements of the
\* sequence it returns when called without n_permutations.
C24_PrefixOfUntruncated ==
    (StrategyCalled("all_perm") /\ ~NoPositiveN) =>
        LET untruncated == Call(gen.fn, <<gen.params, gen.exe_args>>)
            total == LenProduct(gen.params) * LenProduct(gen.exe_args)
        IN  /\ gen.exc = "none"
            /\ untruncated.exc = "none"
            /\ Len(gen.result) = Min(gen.n, total)
            /\ gen.result = Slice(untruncated.result, Min(gen.n, total))

\* C25: all_perm with no parameter, no exe-arg and no positive
\* n_permutations returns exactly one ParamSet, both of whose mappings are
\* empty.
C25_EmptyGivesOneEmptyParamSet ==
    (StrategyCalled("all_perm") /\ NoPositiveN
        /\ gen.params = <<>> /\ gen.exe_args = <<>>) =>
        /\ gen.exc = "none"
        /\ gen.result = <<ParamSet(PyDict(<<>>), PyDict(<<>>))>>

\* The value lists of a mapping all have the length L.
AllOfLength(d, L) == \A k \in DOMAIN d : Len(d[k][2]) = L

\* The i-th of the positional pairings of a mapping: every name with the
\* i-th value of its list.
Pairing(d, i) == PyDict([k \in DOMAIN d |-> <<d[k][1], d[k][2][i]>>])

\* C26: step, for parameters whose lists all have length L, returns L
\* ParamSets, the i-th with the i-th value of every parameter, when
\* n_permutations is <= 0 or not given, and the first min(n, L) of them for
\* n_permutations = n > 0.
C26_StepPairsPositionally ==
    \A L \in 1..3 :
        (StrategyCalled("step") /\ gen.params # <<>>
            /\ AllOfLength(gen.params, L)) =>
            /\ gen.exc = "none"
            /\ Len(gen.result) = IF NoPositiveN THEN L ELSE Min(gen.n, L)
            /\ \A i \in DOMAIN gen.result :
                   gen.result[i].params = Pairing(gen.params, i)

\* A call of the random strategy, in either form.
RandomCalled ==
    /\ gen.op \in {"call", "call_permutation"}
    /\ ~gen.strategy.callable
    /\ gen.strategy.name = "random"

\* C27: random returns n_permutations elements at pairwise distinct
\* positions of the full cross-product for 0 < n_permutations < total, and
\* the whole cross-product otherwise.
C27_RandomSamples ==
    RandomCalled =>
        LET full == FullProduct(gen.params, gen.exe_args)
        IN  /\ gen.exc = "none"
            /\ IF 0 < gen.n /\ gen.n < Len(full)
               THEN /\ Len(gen.result) = gen.n
                    /\ \E pos \in [1..gen.n -> 1..Len(full)] :
                          /\ \A i, j \in 1..gen.n :
                                 pos[i] = pos[j] => i = j
                          /\ \A i \in 1..gen.n : gen.result[i] = full[pos[i]]
               ELSE gen.result = full

\* The function the module registers under a name.
RegisteredUnder(name) ==
    CASE name = "all_perm" -> "create_all_permutations"
      [] name = "step" -> "step_values"
      [] name = "random" -> "random_permutations"

\* A step that is a call resolve(name) of a string.
ResolveName ==
    gen'.calls = gen.calls + 1 /\ gen'.op = "resolve"
        /\ ~gen'.strategy.callable

\* C28: resolve(name) returns the function registered under "all_perm",
\* "step" or "random"; for a name that is not registered it raises
\* ValueError with a message that has every registered name; either way the
\* registry is left as it was.
C28_ResolveByName ==
    [][ResolveName =>
          /\ REGISTERED_STRATEGIES' = REGISTERED_STRATEGIES
          /\ gen'.strategy.name \in {"all_perm", "step", "random"} =>
                /\ gen'.exc = "none"
                /\ gen'.fn.def = RegisteredUnder(gen'.strategy.name)
          /\ gen'.strategy.name \notin Keys(REGISTERED_STRATEGIES) =>
                /\ gen'.exc = "ValueError"
                /\ gen'.fn = NoFunction
                /\ \A name \in Keys(REGISTERED_STRATEGIES) :
                       \E i \in DOMAIN gen'.msg : gen'.msg[i] = name]_vars

C28_Witness ==
    /\ gen.op = "resolve" /\ gen.strategy.name = "bogus"
    /\ gen.exc = "ValueError"
    /\ Keys(REGISTERED_STRATEGIES) = {"all_perm", "step", "random"}
    /\ \E i \in DOMAIN gen.msg : gen.msg[i] = "random"

\* The strategy resolve(f) of a callable f was invoked and has called f.
CustomCalledF ==
    /\ gen.op \in {"call", "call_permutation"}
    /\ gen.strategy.callable
    /\ gen.fcalls # <<>>

\* What the call of f the invocation made did.
FDid == CallUser(gen.strategy, gen.fcalls[1])

\* A return value of f that is not a list of mappings.
Malformed(r) ==
    ~r.islist \/ \E i \in DOMAIN r.value : r.value[i].kind # "dict"

\* C29 as stated: when f raises any exception, or returns something that is
\* not a list of mappings, the invocation of resolve(f) raises
\* UserStrategyError identifying f.
C29_AnyExceptionWrapped ==
    (CustomCalledF /\ (FDid.exc # "none" \/ Malformed(FDid))) =>
        gen.exc = "UserStrategyError" /\ gen.ident = gen.strategy.name

\* C29: when f raises an exception that is an instance of Exception, or
\* returns something that is not a list of mappings, the invocation of
\* resolve(f) raises UserStrategyError identifying f; an exception of f that
\* is a BaseException only (KeyboardInterrupt) propagates as raised.
C29_ExceptionWrapped ==
    CustomCalledF =>
        /\ ((FDid.exc # "none" /\ IsException(FDid.exc))
                \/ (FDid.exc = "none" /\ Malformed(FDid))) =>
              gen.exc = "UserStrategyError" /\ gen.ident = gen.strategy.name
        /\ (FDid.exc # "none" /\ ~IsException(FDid.exc)) =>
              gen.exc = FDid.exc

C29_Witness ==
    /\ CustomCalledF
    /\ gen.strategy.does = "paramsets"
    /\ FDid.exc = "none" /\ Malformed(FDid)
    /\ gen.exc = "UserStrategyError" /\ gen.ident = "f"

\* C30: the strategy resolve(f), called as (params, exe_args,
\* n_permutations), calls f with those three arguments and returns the list
\* f returns when that is a list of mappings.
C30_CustomTakesThree ==
    (gen.op = "call" /\ gen.strategy.callable /\ gen.nargs = 3) =>
        /\ Len(gen.fcalls) = 1
        /\ Len(gen.fcalls[1]) = 3
        /\ gen.fcalls[1] = <<gen.params, gen.exe_args, gen.n>>
        /\ (FDid.exc = "none" /\ ~Malformed(FDid)) =>
              gen.exc = "none" /\ gen.result = FDid.value

\* ---- the collections over time
\* C31: an entity name that is a key of jobs, db_jobs or completed stays a
\* key of at least one of them with every step, whichever operation takes
\* the step and whether or not it raises.
C31_NoJobLost ==
    [][\A n \in EntityNames : Registered(n) => Registered(n)']_vars

\* The Controller's restart_job on a registered entity has raised, a
\* move_to_completed on its Job raises as well, a polling thread has ended
\* in check_jobs with an exception, and the entity is still registered.
C31_Witness ==
    /\ ctl.op = "restart_job" /\ ctl.exc = "KeyError"
    /\ ctl.job # 0
    /\ MoveToCompleted(ctl.job).exc = "AttributeError"
    /\ \E t \in Threads : th[t].pc = "dead" /\ th[t].exc = "TypeError"
    /\ Registered(ctl.ename)

\* status.startswith("CANCELLED"), for the statuses of the reports.
StartsWithCancelled(status) == status \in {"CANCELLED"}

\* C32: every Job in completed has a terminal status and a return code,
\* whatever the Controller's add_job and restart_job calls do between the
\* loop's test of a Job and its move_to_completed; and an entity that was
\* stopped, its Job reported CANCELLED with a return code, is in completed
\* with a status that starts with CANCELLED once the loop's iteration has
\* gone over the jobs.
C32_CompletedAreTerminal ==
    /\ \A n \in Keys(completed) :
           /\ objs[Get(completed, n)].status \in TERMINAL_STATUSES
           /\ objs[Get(completed, n)].returncode # None
    /\ \A t \in Threads :
           th[t].pc \in {"test", "dead"} =>
               \A i \in Paired(t) :
                   ( /\ StartsWithCancelled(th[t].statuses[i].status)
                     /\ th[t].statuses[i].returncode # None )
                   => LET n == objs[th[t].jobs[i]].entity.name
                      IN  /\ InCompleted(n)
                          /\ StartsWithCancelled(objs[Get(completed, n)].status)

\* ---- the parts of a ParamSet
\* C34: every element step returns has a mapping for its file parameters and
\* a mapping for its exe-arguments, also when params and exe_args give
\* different numbers of steps.
C34_StepPartsAreMappings ==
    (StrategyCalled("step") /\ gen.exc = "none") =>
        \A i \in DOMAIN gen.result :
            /\ gen.result[i].params.kind = "dict"
            /\ gen.result[i].exe_args.kind = "dict"

====
